---- MODULE Spec2Model ----
(***************************************************************************)
(* Model of the SGP40 gas-sensor driver (src/src/lib.rs, commands.rs):     *)
(* the CRC-8 checksum, its verification, the error type and self_test.     *)
(* Bytes are written in decimal; the hexadecimal value of the source is    *)
(* given beside each.                                                      *)
(***************************************************************************)
EXTENDS Integers, Sequences, FiniteSets, TLC

VARIABLES
    driver,     \* the SGP40 struct: its only field, the owned bus handle
    busLog,     \* the bus collaborator: every transaction it was asked for
    calls,      \* number of self_test calls made so far
    bus,        \* how the bus behaves in the transaction of the current call
    phase,      \* "idle", "ready" (bus set, call not made) or "returned"
    ret,        \* what the latest self_test call returned
    seen,       \* history: <<bus outcome, returned value>> of the calls so far
    sent,       \* the 3-byte group as the sensor sent it
    group,      \* the 3-byte group as received, handed to check_crc
    verdict,    \* what check_crc returned for it
    accs,       \* the accumulator of crc after each of its steps
    pc          \* "input" before check_crc has run on group, "checked" after

vars ==
    <<driver, busLog, calls, bus, phase, ret, seen,
      sent, group, verdict, accs, pc>>

-----------------------------------------------------------------------------
(* Bounds of the model *)

MaxCalls == 2          \* self_test calls in a behaviour of Spec
MaxSeqCalls == 3       \* self_test calls in a behaviour of SeqSpec
MaxPayload == 2        \* sampled payload bytes are 0..MaxPayload plus fixed ones
MaxDelta == 1          \* sampled checksum bytes are crc+0..crc+MaxDelta plus fixed
MaxErrId == 2          \* distinct transport error values per error kind

Byte == 0..255

-----------------------------------------------------------------------------
(* 8-bit arithmetic *)

RECURSIVE Xor(_, _)
\* a ^ b on naturals of any width
Xor(a, b) ==
    IF a = 0 THEN b
    ELSE IF b = 0 THEN a
    ELSE ((a + b) % 2) + 2 * Xor(a \div 2, b \div 2)

\* x & 0x80 != 0
TopBitSet(x) == (x \div 128) % 2 = 1

\* x << 1 on a u8: the bit shifted out of the top is dropped
\* (faulty variant: a shift in a wider type, nothing dropped)
Shl1Wide(x) == x * 2
Shl1(x) == (x * 2) % 256

-----------------------------------------------------------------------------
(* commands.rs and the constants of lib.rs *)

ADDR == 89                                  \* 0x59
CMD_GET_SERIAL_NUMBER == <<54, 130>>        \* 0x36 0x82
CMD_TURN_HEATER_OFF == <<54, 21>>           \* 0x36 0x15
CMD_EXECUTE_SELF_TEST == <<40, 14>>         \* 0x28 0x0e
CMD_MEASURE_RAW_SIGNAL == <<38, 2>>         \* 0x26 0x02

-----------------------------------------------------------------------------
(* Sgp40Error<E> and Result *)

\* embedded_hal::i2c::ErrorKind, the classification a transport error reports
ErrorKinds ==
    {"Bus", "ArbitrationLoss", "NoAcknowledgeAddress", "NoAcknowledgeData",
     "NoAcknowledgeUnknown", "Overrun", "Other"}

\* the values of the transport's error type E: a diagnostic value and its kind
TransportErrors == [id : 1..MaxErrId, kind : ErrorKinds]

\* placeholder for the payload of the variants that carry none
NoError == [id |-> 0, kind |-> "None"]

InvalidResponse == [variant |-> "InvalidResponse", inner |-> NoError]
InvalidCrc == [variant |-> "InvalidCrc", inner |-> NoError]
I2c(e) == [variant |-> "I2c", inner |-> e]
NoSgp40Error == [variant |-> "None", inner |-> NoError]

Ok(v) == [tag |-> "Ok", val |-> v, err |-> NoSgp40Error]
Err(e) == [tag |-> "Err", val |-> FALSE, err |-> e]
\* Ok(()) of check_crc
OkUnit == Ok(FALSE)

\* impl From<E> for Sgp40Error<E>
\* (faulty variant: the transport's error value is replaced by a generic one)
fromDropping(err) == I2c([id |-> 1, kind |-> "Other"])
from(err) == I2c(err)

\* impl embedded_hal::i2c::Error for Sgp40Error<E>: kind()
\* (faulty variant: every error classified as Other)
kindOther(e) == "Other"
kind(e) ==
    IF e.variant = "I2c" THEN e.inner.kind
    ELSE "Other"

-----------------------------------------------------------------------------
(* SGP40::crc *)

\* one pass of the inner loop body
\* (faulty variants: no truncation to 8 bits; the polynomial left out)
crc_round_wide(c) ==
    IF TopBitSet(c) THEN Xor(Shl1Wide(c), 49) ELSE Shl1Wide(c)
crc_round_noxor(c) == Shl1(c)
crc_round(c) ==
    IF TopBitSet(c)
    THEN Xor(Shl1(c), 49)              \* crc = (crc << 1) ^ 0x31
    ELSE Shl1(c)                       \* crc <<= 1

RECURSIVE crc_rounds(_, _)
\* n passes of the inner loop, for _ in 0..8
crc_rounds(c, n) == IF n = 0 THEN c ELSE crc_rounds(crc_round(c), n - 1)

\* one pass of the outer loop: crc ^= byte, then the 8 rounds
crc_byte(c, byte) == crc_rounds(Xor(c, byte), 8)

\* (faulty variant: the accumulator starts at 0)
crc_init_zero(data) == crc_byte(crc_byte(0, data[1]), data[2])
\* data: the 2 payload bytes, data[1] first; crc starts at 0xff
crc(data) == crc_byte(crc_byte(255, data[1]), data[2])

RECURSIVE crc_trace(_, _)
\* the accumulator before and after each of n passes of the inner loop
crc_trace(c, n) ==
    IF n = 0 THEN <<c>> ELSE <<c>> \o crc_trace(crc_round(c), n - 1)

\* the accumulator after each step of crc(data): after the XOR of each byte
\* and after each of its 8 rounds
crc_steps(data) ==
    LET s1 == crc_trace(Xor(255, data[1]), 8)
        s2 == crc_trace(Xor(s1[9], data[2]), 8)
    IN  s1 \o s2

-----------------------------------------------------------------------------
(* SGP40::check_crc *)

\* (faulty variant: the first payload byte used twice)
check_crc_first_only(data) ==
    IF crc(<<data[1], data[1]>>) # data[3] THEN Err(InvalidCrc) ELSE OkUnit
check_crc(data) ==
    IF crc(<<data[1], data[2]>>) # data[3]
    THEN Err(InvalidCrc)
    ELSE OkUnit

-----------------------------------------------------------------------------
(* The bus collaborator (embedded_hal::i2c::I2c) as self_test sees it *)

\* the record the bus keeps of one write_read(address, write, read) call
Transaction(address, write, readLen) ==
    [addr |-> address, wr |-> write, rdlen |-> readLen]

\* the read buffer after the bus has stored `bytes` at its start
Fill(buf, bytes) ==
    [i \in 1..Len(buf) |-> IF i <= Len(bytes) THEN bytes[i] ELSE buf[i]]

\* an outcome of one transaction: success or a transport error, and the
\* bytes the bus stored into the read buffer
BusOk(bytes) == [ok |-> TRUE, err |-> NoError, read |-> bytes]
BusFail(e, bytes) == [ok |-> FALSE, err |-> e, read |-> bytes]

-----------------------------------------------------------------------------
(* SGP40::new and SGP40::self_test *)

\* SGP40::new(i2c)
new(i2c) == [i2c |-> i2c]

\* match result[0]
\* (faulty variant: matches on result[1] of the source, the second byte)
decode_second_byte(result) ==
    IF result[2] = 212 THEN Ok(TRUE)
    ELSE IF result[2] = 75 THEN Ok(FALSE)
    ELSE Err(InvalidResponse)
decode(result) ==
    IF result[1] = 212 THEN Ok(TRUE)            \* 0xd4
    ELSE IF result[1] = 75 THEN Ok(FALSE)       \* 0x4b
    ELSE Err(InvalidResponse)

\* let mut result = [0u8; 3]
EmptyResult == <<0, 0, 0>>

\* the value self_test returns when its transaction went as o: the two `?`
\* and the match
\* (faulty variant: a sentinel first byte is accepted before the checksum is
\* looked at)
self_test_value_decode_first(o) ==
    LET result == Fill(EmptyResult, o.read)
    IN  IF ~o.ok THEN Err(from(o.err))
        ELSE IF decode(result).tag = "Ok" THEN decode(result)
        ELSE IF check_crc(result).tag = "Err" THEN check_crc(result)
        ELSE decode(result)
self_test_value(o) ==
    LET result == Fill(EmptyResult, o.read)
        checked == check_crc(result)
    IN  IF ~o.ok THEN Err(from(o.err))          \* write_read(..)?
        ELSE IF checked.tag = "Err" THEN checked \* check_crc(&result)?
        ELSE decode(result)

\* the transaction self_test asks the bus for
self_test_tx ==
    Transaction(ADDR, CMD_EXECUTE_SELF_TEST, Len(EmptyResult))

\* self_test on driver drv when the bus behaves as o: the value returned, the
\* transactions issued, and the driver afterwards
\* (faulty variants: a second transaction after a failure; a driver that
\* remembers a failure and fails every later call)
self_test_retry(drv, o) ==
    [ret |-> self_test_value(o),
     txs |-> IF self_test_value(o).tag = "Err"
             THEN <<self_test_tx, self_test_tx>> ELSE <<self_test_tx>>,
     drv |-> drv]
self_test_latching(drv, o) ==
    IF drv.i2c = "faulted"
    THEN [ret |-> Err(InvalidResponse), txs |-> <<self_test_tx>>, drv |-> drv]
    ELSE [ret |-> self_test_value(o),
          txs |-> <<self_test_tx>>,
          drv |-> IF self_test_value(o).tag = "Err"
                  THEN [i2c |-> "faulted"] ELSE drv]
self_test(drv, o) ==
    [ret |-> self_test_value(o), txs |-> <<self_test_tx>>, drv |-> drv]

-----------------------------------------------------------------------------
(* Inputs *)

\* payload bytes tried in the second position
SamplePayload == (0..MaxPayload) \cup {1, 239}              \* 0x01, 0xef

\* first bytes tried together with every sampled second and third byte
SampleFirst == {212, 75, 190, 0, 255}             \* 0xd4 0x4b 0xbe 0x00 0xff

\* third bytes tried for payload <<p0, p1>>: the right one, near misses, and
\* fixed values
SampleChecksum(p0, p1) ==
    {(crc(<<p0, p1>>) + d) % 256 : d \in 0..MaxDelta} \cup {0, 146}   \* 0x92

ValidGroup(p0, p1) == <<p0, p1, crc(<<p0, p1>>)>>

\* what the bus may store on success: every first byte with a valid
\* checksum, the two sentinels with every second byte, the sampled groups,
\* and short or absent fills
OkReads ==
    {ValidGroup(b0, 0) : b0 \in Byte}
    \cup {ValidGroup(b0, b1) : b0 \in {212, 75}, b1 \in Byte}
    \cup UNION {{<<b0, b1, b2>> : b2 \in SampleChecksum(b0, b1)} :
                    b0 \in SampleFirst, b1 \in SamplePayload}
    \cup {<<>>, <<212>>, <<212, 0>>, <<75, 1>>}

\* what the bus may have stored when it fails
FailReads ==
    {<<>>, <<212>>, ValidGroup(212, 0), ValidGroup(75, 0), ValidGroup(0, 0),
     <<212, 0, 0>>, <<190, 1, 146>>}

BusOutcomes ==
    {BusOk(b) : b \in OkReads}
    \cup {BusFail(e, b) : e \in TransportErrors, b \in FailReads}

\* the outcomes replayed in every order by SeqSpec, one of each result class
ProbeOutcomes ==
    {BusOk(ValidGroup(212, 0)), BusOk(ValidGroup(75, 0)),
     BusOk(ValidGroup(0, 0)), BusOk(<<212, 0, 0>>), BusOk(<<>>),
     BusFail([id |-> 1, kind |-> "NoAcknowledgeAddress"], <<>>),
     BusFail([id |-> 1, kind |-> "Bus"], ValidGroup(212, 0))}

\* first bytes of the valid groups whose single-byte corruptions are all tried
CorruptFirst == SampleFirst \cup (0..MaxPayload)

\* the groups handed to check_crc
CrcInputs ==
    UNION {{<<p0, p1, c>> : c \in SampleChecksum(p0, p1)} :
               p0 \in Byte, p1 \in SamplePayload}

-----------------------------------------------------------------------------
(* Behaviours *)

NoOutcome == BusOk(<<>>)

DriverInit ==
    /\ driver = new("i2c0")
    /\ busLog = <<>>
    /\ calls = 0
    /\ bus = NoOutcome
    /\ phase = "idle"
    /\ ret = OkUnit
    /\ seen = {}

CrcIdle ==
    /\ sent = <<0, 0, 0>>
    /\ group = <<0, 0, 0>>
    /\ verdict = OkUnit
    /\ accs = <<>>
    /\ pc = "idle"

Init == DriverInit /\ CrcIdle

\* the environment: the sensor and the wire get into the condition in which
\* the next transaction goes as o
BusBehaves(o) ==
    /\ phase \in {"idle", "returned"}
    /\ bus' = o
    /\ phase' = "ready"
    /\ UNCHANGED <<driver, busLog, calls, ret, seen,
                   sent, group, verdict, accs, pc>>

\* one call of self_test
SelfTest ==
    LET r == self_test(driver, bus)
    IN  /\ phase = "ready"
        /\ driver' = r.drv
        /\ busLog' = busLog \o r.txs
        /\ calls' = calls + 1
        /\ ret' = r.ret
        /\ phase' = "returned"
        /\ UNCHANGED <<bus, sent, group, verdict, accs, pc>>

Next ==
    \/ /\ calls < MaxCalls
       /\ \E o \in BusOutcomes : BusBehaves(o)
    \/ /\ SelfTest
       /\ UNCHANGED seen

Spec == Init /\ [][Next]_vars

SeqNext ==
    \/ /\ calls < MaxSeqCalls
       /\ \E o \in ProbeOutcomes : BusBehaves(o)
    \/ /\ SelfTest
       /\ seen' = seen \cup {<<bus, ret'>>}

SeqSpec == Init /\ [][SeqNext]_vars

CrcInit ==
    /\ DriverInit
    /\ group \in CrcInputs
    /\ sent = group
    /\ verdict = OkUnit
    /\ accs = <<>>
    /\ pc = "input"

\* check_crc(&group)
CheckCrc ==
    /\ pc = "input"
    /\ verdict' = check_crc(group)
    /\ accs' = crc_steps(<<group[1], group[2]>>)
    /\ pc' = "checked"
    /\ UNCHANGED <<driver, busLog, calls, bus, phase, ret, seen, sent, group>>

\* the environment: a group that passed is received again with one of its
\* bytes replaced by a different value
Corrupt ==
    /\ pc = "checked"
    /\ verdict = OkUnit
    /\ group = sent
    /\ group[1] \in CorruptFirst
    /\ \E i \in 1..3 : \E x \in Byte \ {group[i]} :
           group' = [group EXCEPT ![i] = x]
    /\ verdict' = OkUnit
    /\ accs' = <<>>
    /\ pc' = "input"
    /\ UNCHANGED <<driver, busLog, calls, bus, phase, ret, seen, sent>>

CrcNext ==
    \/ CheckCrc
    \/ Corrupt

CrcSpec == CrcInit /\ [][CrcNext]_vars

-----------------------------------------------------------------------------
(* The reference CRC-8 of the datasheet, on bit strings: most significant  *)
(* bit first, polynomial x^8 + x^5 + x^4 + 1, initial value all ones, no   *)
(* reflection, no final XOR                                                *)

Bits8(x) == [i \in 1..8 |-> (x \div 2^(8 - i)) % 2]

RECURSIVE BitsValue(_)
BitsValue(b) ==
    IF b = <<>> THEN 0 ELSE 2 * BitsValue(SubSeq(b, 1, Len(b) - 1)) + b[Len(b)]

BitXor(a, b) == [i \in 1..8 |-> IF a[i] = b[i] THEN 0 ELSE 1]

RefPoly == <<0, 0, 1, 1, 0, 0, 0, 1>>

RefRound(b) ==
    LET shifted == Tail(b) \o <<0>>
    IN  IF b[1] = 1 THEN BitXor(shifted, RefPoly) ELSE shifted

RECURSIVE RefTrace(_, _)
RefTrace(b, n) ==
    IF n = 0 THEN <<b>> ELSE <<b>> \o RefTrace(RefRound(b), n - 1)

\* the reference checksum as a bit string
RefCrcBits(data) ==
    LET x1 == BitXor(<<1, 1, 1, 1, 1, 1, 1, 1>>, Bits8(data[1]))
        x2 == BitXor(RefTrace(x1, 8)[9], Bits8(data[2]))
    IN  RefTrace(x2, 8)[9]

\* the reference accumulator after each step, as numbers
RefSteps(data) ==
    LET x1 == BitXor(<<1, 1, 1, 1, 1, 1, 1, 1>>, Bits8(data[1]))
        s1 == RefTrace(x1, 8)
        x2 == BitXor(s1[9], Bits8(data[2]))
        s2 == RefTrace(x2, 8)
        all == s1 \o s2
    IN  [k \in 1..18 |-> BitsValue(all[k])]

RefCrc(data) == BitsValue(RefCrcBits(data))

Payload(g) == <<g[1], g[2]>>

\* the positions in which two groups differ
DiffPositions(g, h) == {i \in 1..3 : g[i] # h[i]}

-----------------------------------------------------------------------------
(* Claims about crc and check_crc, under CrcSpec *)

\* C1: check_crc(<<p0, p1, c>>) returns Ok(()) if and only if c = crc(<<p0, p1>>),
\* and Err(InvalidCrc) in every other case; <<0xBE, 0x01, 0x92>> is rejected.
C1_CheckCrcIff ==
    pc = "checked" =>
        /\ (verdict = OkUnit) <=> (group[3] = crc(Payload(group)))
        /\ (verdict # OkUnit) => (verdict = Err(InvalidCrc))
        /\ (group = <<190, 1, 146>>) => (verdict = Err(InvalidCrc))

C1_Witness ==
    /\ pc = "checked"
    /\ group = <<190, 1, 146>>
    /\ verdict = Err(InvalidCrc)

\* C5: crc equals the reference bitwise CRC-8 on every 2-byte input, its
\* accumulator is the reference's and within 0..255 after every step, and
\* crc(<<0xBE, 0xEF>>) = 0x92.
C5_CrcIsReference ==
    pc = "checked" =>
        /\ crc(Payload(group)) = RefCrc(Payload(group))
        /\ accs = RefSteps(Payload(group))
        /\ accs[Len(accs)] = crc(Payload(group))
        /\ \A k \in 1..Len(accs) : accs[k] \in Byte
        /\ (Payload(group) = <<190, 239>>) => (crc(Payload(group)) = 146)

C5_Witness ==
    /\ pc = "checked"
    /\ group = <<190, 239, 146>>
    /\ verdict = OkUnit
    /\ Len(accs) = 18
    /\ \E k \in 1..17 : accs[k] >= 128 /\ accs[k + 1] < 128

\* C9: a group that passed check_crc and then has exactly one of its three
\* bytes replaced by a different value fails check_crc with InvalidCrc.
C9_SingleByteCorruptionDetected ==
    (/\ pc = "checked"
     /\ check_crc(sent) = OkUnit
     /\ Cardinality(DiffPositions(sent, group)) = 1)
        => verdict = Err(InvalidCrc)

C9_Witness ==
    /\ pc = "checked"
    /\ sent = <<190, 239, 146>>
    /\ group = <<190, 238, 146>>
    /\ verdict = Err(InvalidCrc)

-----------------------------------------------------------------------------
(* Claims about self_test, under Spec *)

\* the read buffer self_test holds after the transaction of the current call
Buffer == Fill(<<0, 0, 0>>, bus.read)

ChecksumValid == Buffer[3] = crc(<<Buffer[1], Buffer[2]>>)

\* C2: after a successful transaction with a checksum-valid response,
\* self_test returns Ok(true) for first byte 0xD4, Ok(false) for 0x4B and
\* Err(InvalidResponse) for any other first byte, whatever the second byte.
C2_DecodesFirstByte ==
    (phase = "returned" /\ bus.ok /\ ChecksumValid) =>
        ret = IF Buffer[1] = 212 THEN Ok(TRUE)
              ELSE IF Buffer[1] = 75 THEN Ok(FALSE)
              ELSE Err(InvalidResponse)

C2_Witness ==
    /\ phase = "returned"
    /\ bus = BusOk(<<75, 212, crc(<<75, 212>>)>>)
    /\ ret = Ok(FALSE)

\* C3: when the transaction fails with transport error e, self_test returns
\* Err(I2c(e)) with that e, whatever bytes are in the read buffer.
C3_TransportFailurePassesThrough ==
    (phase = "returned" /\ ~bus.ok) => ret = Err(I2c(bus.err))

C3_Witness ==
    /\ phase = "returned"
    /\ ~bus.ok
    /\ bus.err = [id |-> 2, kind |-> "NoAcknowledgeData"]
    /\ bus.read = <<212, 0, crc(<<212, 0>>)>>
    /\ ret = Err(I2c([id |-> 2, kind |-> "NoAcknowledgeData"]))

\* C4: after a successful transaction whose third byte is not the crc of the
\* first two, self_test returns Err(InvalidCrc), also when the first byte is
\* 0xD4 or 0x4B; self_test returns Ok only for a checksum-valid response.
C4_ChecksumFailureFirst ==
    phase = "returned" =>
        /\ (bus.ok /\ ~ChecksumValid) => ret = Err(InvalidCrc)
        /\ (ret.tag = "Ok") => (bus.ok /\ ChecksumValid)

C4_Witness ==
    /\ phase = "returned"
    /\ bus.ok
    /\ Buffer[1] = 212
    /\ ~ChecksumValid
    /\ ret = Err(InvalidCrc)

\* C6: every self_test call, whatever it returns, issues exactly one bus
\* transaction: a write-then-read to address 0x59 writing <<0x28, 0x0E>> and
\* reading 3 bytes.
C6_OneTransactionPerCall ==
    /\ Len(busLog) = calls
    /\ \A k \in 1..Len(busLog) :
           busLog[k] = [addr |-> 89, wr |-> <<40, 14>>, rdlen |-> 3]

C6_Witness ==
    /\ calls = 2
    /\ phase = "returned"
    /\ ret = Err(InvalidCrc)
    /\ Len(busLog) = 2

\* C7: a transport error e becomes I2c(e) with e unaltered, and kind() of
\* I2c(e) is e's own kind.
C7_TransportErrorKept ==
    (phase = "returned" /\ ~bus.ok) =>
        /\ ret.err.variant = "I2c"
        /\ ret.err.inner = bus.err
        /\ kind(ret.err) = bus.err.kind

C7_Witness ==
    /\ phase = "returned"
    /\ ~bus.ok
    /\ bus.err.kind = "ArbitrationLoss"
    /\ kind(ret.err) = "ArbitrationLoss"

\* C10: when the bus reports success and the read buffer is still
\* <<0, 0, 0>>, self_test returns Err(InvalidCrc).
C10_UnfilledBufferRejected ==
    (phase = "returned" /\ bus.ok /\ Buffer = <<0, 0, 0>>) =>
        ret = Err(InvalidCrc)

C10_Witness ==
    /\ phase = "returned"
    /\ bus = BusOk(<<>>)
    /\ ret = Err(InvalidCrc)

-----------------------------------------------------------------------------
(* Claims about sequences of calls, under SeqSpec *)

\* C8: after any sequence of self_test calls the driver is as constructed,
\* and any two calls whose bus outcome was the same returned the same value.
C8_CallsIndependent ==
    /\ driver = new("i2c0")
    /\ \A p \in seen : \A q \in seen : (p[1] = q[1]) => (p[2] = q[2])
    /\ (phase = "returned") => (<<bus, ret>> \in seen)

C8_Witness ==
    /\ calls = 3
    /\ phase = "returned"
    /\ Cardinality(seen) = 2
    /\ ret = Ok(TRUE)
    /\ \E p \in seen : p[2].tag = "Err"

====
